---- MODULE Spec2Model ----
(***************************************************************************)
(* Model of dockerbackup's orchestrator: DockerBackup::backup and          *)
(* DockerBackup::run (src/src/backup/mod.rs) with the helpers they call    *)
(* (src/src/backup/utils.rs).  One main thread (backup -> run), one        *)
(* monitor thread per spawned transfer, the ctrlc handler thread, and the  *)
(* external transfer processes.                                            *)
(***************************************************************************)
EXTENDS Integers, Sequences, FiniteSets, TLC

\* ------------------------------------------------------------------ bounds
NumDests == 2
MaxSize == 1
MaxPrepares == 4
MaxBytes == 3
MaxKb == 1
MaxCols == 4
MaxFile == 1
MaxEntries == 2
MaxDepth == 2
MaxExcluded == 1
MaxName == 2
MaxContainers == 1

Dests == 1..NumDests
Sizes == 0..MaxSize
Bytes == 0..MaxBytes

\* The names docker ps can list.
ContainerNames == 1..MaxContainers

\* self.dest_paths: the variant of each destination, a Local one first and
\* the two variants in turn after it.
dest_paths == [d \in Dests |-> IF d % 2 = 1 THEN "Local" ELSE "Ssh"]

\* The text the handler sends and the receive loop tests for.
InterruptedMsg == "Backup interrupted"

\* Names of files a transfer may write into dest_path/new_dir.
FileNames == {"vol_a", "vol_b"}

\* What a transfer process may have written on its stderr.
StderrTexts == {"transfer failed", InterruptedMsg}

\* ------------------------------------------------------------------ state
VARIABLES
    pc,              \* position of the main thread in backup()/run()
    idx,             \* position of the for loop the main thread is in
    results,         \* run(): results
    channel,         \* the mpsc channel (sender, receiver)
    proc,            \* the Child of each handle
    retPath,         \* history: the return statement run() left through
    exclusionsOk,    \* every excluded volume matches a child of volume_path
    dirBefore,       \* history: dirExists when backup() began
    files,           \* file system: the contents of dest_path/new_dir
    prepared,        \* history: the calls of create_new_dir and their results
    prevStage,       \* history: stage at the end of the run before this one
    args,            \* the arguments of a helper called on its own
    ret,             \* what that call returned
    containers,      \* "none" | "running" | "stopped" | "restarted"
    excluded_containers,  \* self.excluded_containers
    running_containers,   \* backup(): running_containers
    dockerCalls,     \* history: the calls of handle_containers
    notified,        \* history: the results handed to notify()
    total_size,      \* run(): total_size
    dirExists,       \* file system: dest_path/new_dir exists
    started,         \* subprocesses started for each destination
    stage,           \* history: how far stage 2 went for each destination
    backup_handles,  \* run(): backup_handles, as the destinations spawned
    monPc,           \* position of each monitor thread
    handleLock,      \* the Mutex<Child> of each handle: "free" | "mon" | "orch"
    stdoutLock,      \* the Mutex<Stdout>: the monitor that holds it, 0 when free
    reaped,          \* try_wait has returned the exit status of the Child
    stderrRead,      \* history: what read_to_end gave the monitor: "unread",
                     \* "failed" or the text read
    sent,            \* history: messages each monitor sent on the channel
    arrival,         \* history: the monitors in the order their messages
                     \* went on the channel
    progress,        \* history: a running-time line went to the progress
    killIssued,      \* history: kill() was called on the handle
    joined,          \* history: join() returned for the monitor
    kAtCancel,       \* history: len of results when the cancel branch began
    resAtCancel,     \* history: results when the cancel branch began
    call_count,      \* the handler's captured counter
    sentinels,       \* history: sentinels the handler enqueued
    kAtSignal,       \* history: Outcomes produced when it did, during run()
    phaseAtSignal    \* history: where backup() was when it did: "none",
                     \* "preparing" (mod.rs 169-253) or "later"

envV == <<exclusionsOk, dirBefore, files, prepared, prevStage, args, ret>>
contV == <<containers, notified, excluded_containers, running_containers,
          dockerCalls>>
stageV == <<total_size, dirExists, started, stage, backup_handles>>
monV == <<monPc, handleLock, stdoutLock, reaped, stderrRead, sent, arrival, progress>>
killV == <<killIssued, joined, kAtCancel, resAtCancel>>
sigV == <<call_count, sentinels, kAtSignal, phaseAtSignal>>

vars == <<pc, idx, results, channel, proc, retPath, envV, contV, stageV,
          monV, killV, sigV>>

\* ---------------------------------------------------------------- outcomes
\* A Result<_, BackupError> / Result<BackupSuccess, BackupError>.  msg is the
\* message text; dest, req and avail stand for the parts of the text that
\* format!() fills in (0 when the text names none).
Outcome(isOk, m, d, r, a) ==
    [ok |-> isOk, msg |-> m, dest |-> d, req |-> r, avail |-> a]

Success(m, d) == Outcome(TRUE, m, d, 0, 0)

BackupError(m, d) == Outcome(FALSE, m, d, 0, 0)

\* Ok(()) of a Result<(), BackupError>.
OkUnit == Outcome(TRUE, "", 0, 0, 0)

\* mod.rs 155: what the handler sends.
Sentinel == BackupError(InterruptedMsg, 0)

\* The positions of a sequence of outcomes that name destination d.
OfDest(s, d) == {k \in 1..Len(s) : s[k].dest = d}

\* There was no run before this one.
NoRun == [d \in Dests |-> "none"]

\* The program at the entry of backup(), but for the contents of the
\* directories.
Fresh ==
    /\ pc = "backup"
    /\ idx = 0
    /\ results = <<>>
    /\ channel = <<>>
    /\ proc = [d \in Dests |-> "none"]
    /\ retPath = "none"
    /\ exclusionsOk \in BOOLEAN
    /\ dirExists \in [Dests -> BOOLEAN]
    /\ \A d \in Dests : dest_paths[d] = "Ssh" => ~dirExists[d]
    /\ dirBefore = dirExists
    /\ containers = "none"
    /\ running_containers = {}
    /\ dockerCalls = <<>>
    /\ notified = <<>>
    /\ total_size = 0
    /\ started = [d \in Dests |-> {}]
    /\ stage = [d \in Dests |-> "pending"]
    /\ backup_handles = <<>>
    /\ monPc = [d \in Dests |-> "none"]
    /\ handleLock = [d \in Dests |-> "free"]
    /\ stdoutLock = 0
    /\ reaped = [d \in Dests |-> FALSE]
    /\ stderrRead = [d \in Dests |-> "unread"]
    /\ sent = [d \in Dests |-> 0]
    /\ arrival = <<>>
    /\ progress = FALSE
    /\ killIssued = [d \in Dests |-> FALSE]
    /\ joined = [d \in Dests |-> FALSE]
    /\ kAtCancel = -1
    /\ resAtCancel = <<>>
    /\ call_count = 0
    /\ sentinels = 0
    /\ kAtSignal = -1
    /\ phaseAtSignal = "none"

\* No helper is called on its own.
NoArgs == [fn |-> "none"]
NoRet == [set |-> FALSE]

Init ==
    /\ Fresh
    /\ prevStage = NoRun
    /\ files = [d \in Dests |-> {}]
    /\ prepared = <<>>
    /\ args = NoArgs
    /\ ret = NoRet
    /\ excluded_containers = {}

\* ----------------------------------------------------- helpers of utils.rs
\* What the expression of utils.rs 150-158 gives: the available bytes, or
\* the error it returns through.
ProbeOk(v) == [ok |-> TRUE, val |-> v, msg |-> ""]
ProbeErr(m) == [ok |-> FALSE, val |-> 0, msg |-> m]

\* The errors of utils.rs 153 and of the probes (utils.rs 169-281).
ProbeErrors ==
    {"Invalid ssh path", "Failed to execute df", "df command failed",
     "Invalid df output", "Failed to parse available space",
     "Failed to execute ssh", "ssh df command failed",
     "Invalid df output format"}

\* The comparison of utils.rs 160 written with <=.
CheckSpaceOffByOne(d, probe, required_size) ==
    IF ~probe.ok THEN BackupError(probe.msg, d)
    ELSE IF probe.val <= required_size
    THEN Outcome(FALSE, "Not enough space on destination", d, required_size, probe.val)
    ELSE OkUnit

\* A check that reports a failed probe as no space at all.
CheckSpaceProbeAsShortage(d, probe, required_size) ==
    IF probe.val < required_size \/ ~probe.ok
    THEN Outcome(FALSE, "Not enough space on destination", d, required_size, probe.val)
    ELSE OkUnit

\* utils::check_available_space.  probe is what the destination's space
\* probe returned; its error goes out through the ? of utils.rs 155, 157.
check_available_space(d, probe, required_size) ==
    IF ~probe.ok THEN BackupError(probe.msg, d)
    ELSE IF probe.val < required_size
    THEN Outcome(FALSE, "Not enough space on destination", d, required_size, probe.val)
    ELSE OkUnit

\* A create_new_dir without the test of dir_path.exists(): create_dir_all
\* succeeds on a directory that is there.
CreateNewDirReuse(d, exists, mkdirOk) ==
    IF ~mkdirOk
    THEN [res |-> BackupError("create_dir_all failed", d), created |-> exists]
    ELSE [res |-> OkUnit, created |-> TRUE]

\* utils::create_new_dir.  exists: dest_path/new_dir exists; mkdirOk: the
\* result of create_dir_all.  created: the directory exists afterwards.
create_new_dir(d, exists, mkdirOk) ==
    IF exists
    THEN [res |-> BackupError("Directory already exists", d), created |-> TRUE]
    ELSE IF ~mkdirOk
    THEN [res |-> BackupError("create_dir_all failed", d), created |-> FALSE]
    ELSE [res |-> OkUnit, created |-> TRUE]

\* utils::exclude_volumes, as far as its result goes: an Err when some
\* excluded volume is the suffix of no child of volume_path.
exclude_volumes(d, exOk) ==
    IF exOk THEN OkUnit
    ELSE BackupError("Excluded volume does not exist", d)

\* Which Command::spawn of a spawn_* function fails, if any.
SpawnFaults == {"none", "first", "second"}

\* DockerBackup::spawn_local_rsync_backup.  procs: the subprocesses started.
spawn_local_rsync_backup(d, exOk, fault) ==
    IF ~exclude_volumes(d, exOk).ok
    THEN [res |-> exclude_volumes(d, exOk), procs |-> {}]
    ELSE IF fault = "first"
    THEN [res |-> BackupError("failed to spawn rsync", d), procs |-> {}]
    ELSE [res |-> OkUnit, procs |-> {"rsync"}]

\* A spawn_ssh_backup that validates the exclusions once tar is running.
SpawnSshValidateLate(d, exOk, fault) ==
    IF fault = "first"
    THEN [res |-> BackupError("failed to spawn tar", d), procs |-> {}]
    ELSE IF ~exclude_volumes(d, exOk).ok
    THEN [res |-> exclude_volumes(d, exOk), procs |-> {"tar"}]
    ELSE IF fault = "second"
    THEN [res |-> BackupError("failed to spawn ssh", d), procs |-> {"tar"}]
    ELSE [res |-> OkUnit, procs |-> {"tar", "ssh"}]

\* DockerBackup::spawn_ssh_backup: tar piped into ssh; the Child is ssh.
spawn_ssh_backup(d, exOk, fault) ==
    IF ~exclude_volumes(d, exOk).ok
    THEN [res |-> exclude_volumes(d, exOk), procs |-> {}]
    ELSE IF fault = "first"
    THEN [res |-> BackupError("failed to spawn tar", d), procs |-> {}]
    ELSE IF fault = "second"
    THEN [res |-> BackupError("failed to spawn ssh", d), procs |-> {"tar"}]
    ELSE [res |-> OkUnit, procs |-> {"tar", "ssh"}]

\* ------------------------------------------------------- backup(), prefix
\* A backup() that leaves the excluded containers in the set.
RunningContainersAll(listed, excluded) == listed

\* mod.rs 139-146: the names listed by docker ps (the empty line dropped by
\* retain), without the excluded containers.
RunningContainers(listed, excluded) == listed \ excluded

\* mod.rs 138-167: list the running containers, create the channel, install
\* the ctrlc handler.
BackupStart ==
    /\ pc = "backup"
    /\ \E listOk \in BOOLEAN, listed \in SUBSET ContainerNames :
         IF ~listOk
         THEN /\ pc' = "failed"
              /\ UNCHANGED <<containers, running_containers>>
         ELSE /\ pc' = "stop"
              /\ running_containers' = RunningContainers(listed, excluded_containers)
              /\ containers' = IF RunningContainers(listed, excluded_containers) = {}
                               THEN "none" ELSE "running"
    /\ UNCHANGED <<idx, results, channel, proc, retPath, envV, notified,
                   excluded_containers, dockerCalls, stageV, monV, killV, sigV>>

\* utils::handle_containers (utils.rs 67-76) called with running_containers.
DockerCall(command, isOk) ==
    Append(dockerCalls, [cmd |-> command, names |-> running_containers, ok |-> isOk])

\* A backup() that goes on to run() when the stop failed.
StopContainersIgnoreError ==
    /\ pc = "stop"
    /\ \E stopOk \in BOOLEAN :
         IF containers = "running"
         THEN /\ containers' = IF stopOk THEN "stopped" ELSE containers
              /\ dockerCalls' = DockerCall("stop", stopOk)
         ELSE UNCHANGED <<containers, dockerCalls>>
    /\ pc' = "estimate"
    /\ UNCHANGED <<idx, results, channel, proc, retPath, envV, notified,
                   excluded_containers, running_containers, stageV, monV, killV,
                   sigV>>

\* mod.rs 169-175: stop the running containers, then enter run().
StopContainers ==
    /\ pc = "stop"
    /\ \E stopOk \in BOOLEAN :
         IF containers = "running"
         THEN /\ dockerCalls' = DockerCall("stop", stopOk)
              /\ IF stopOk
                 THEN /\ containers' = "stopped"
                      /\ pc' = "estimate"
                 ELSE /\ pc' = "failed"
                      /\ UNCHANGED containers
         ELSE /\ pc' = "estimate"
              /\ UNCHANGED <<containers, dockerCalls>>
    /\ UNCHANGED <<idx, results, channel, proc, retPath, envV, notified,
                   excluded_containers, running_containers, stageV, monV, killV,
                   sigV>>

\* ------------------------------------------------------------------ run()
\* The Err arm of mod.rs 202-205 without its return.
EstimatedNoReturn(size) ==
    IF size < 0
    THEN [push |-> <<BackupError("Failed to read volume directory", 0)>>,
          total |-> 0, pc |-> "stage2", path |-> "none"]
    ELSE [push |-> <<>>, total |-> size, pc |-> "stage2", path |-> "none"]

\* mod.rs 200-206: what run() does with the result of get_volumes_size;
\* size = -1 stands for its Err.
Estimated(size) ==
    IF size < 0
    THEN [push |-> <<BackupError("Failed to read volume directory", 0)>>,
          total |-> 0, pc |-> "returned", path |-> "estimator"]
    ELSE [push |-> <<>>, total |-> size, pc |-> "stage2", path |-> "none"]

\* mod.rs 200-206.
Estimate ==
    /\ pc = "estimate"
    /\ \E size \in {-1} \cup Sizes :
         /\ results' = results \o Estimated(size).push
         /\ total_size' = Estimated(size).total
         /\ pc' = Estimated(size).pc
         /\ retPath' = Estimated(size).path
    /\ idx' = 1
    /\ UNCHANGED <<channel, proc, envV, contV, dirExists, started, stage,
                   backup_handles, monV, killV, sigV>>

\* A failure that ends the loop instead of going on to the next destination.
NextDestAbort(d, failed) == IF failed THEN NumDests + 1 ELSE d + 1

\* mod.rs 212, 215, 238: the loop goes on to the next destination whether
\* the iteration failed or not.
NextDest(d, failed) == d + 1

\* An Err arm that removes the directory create_new_dir made.
SpawnErrDirRemoved(created) == FALSE

\* mod.rs 245-250: the Err arm of the spawn pushes the error and goes on;
\* the directory stays as create_new_dir left it.
SpawnErrDir(created) == created

\* What one iteration of the loop of mod.rs 212-253 does for destination d,
\* given the results of the calls it makes.
Stage2Body(d, probe, mkdirOk, fault) ==
    LET space == check_available_space(d, probe, total_size)
        ssh   == spawn_ssh_backup(d, exclusionsOk, fault)
        mk    == create_new_dir(d, dirExists[d], mkdirOk)
        rsync == spawn_local_rsync_backup(d, exclusionsOk, fault)
    IN  IF ~space.ok
        THEN [st |-> "space_err", push |-> <<space>>, dir |-> dirExists[d],
              procs |-> {}, next |-> NextDest(d, TRUE)]
        ELSE IF dest_paths[d] = "Ssh"
        THEN IF ssh.res.ok
             THEN [st |-> "spawned", push |-> <<>>, dir |-> dirExists[d],
                   procs |-> ssh.procs, next |-> NextDest(d, FALSE)]
             ELSE [st |-> "spawn_err", push |-> <<ssh.res>>, dir |-> dirExists[d],
                   procs |-> ssh.procs, next |-> NextDest(d, TRUE)]
        ELSE IF ~mk.res.ok
        THEN [st |-> "prepare_err", push |-> <<mk.res>>, dir |-> mk.created,
              procs |-> {}, next |-> NextDest(d, TRUE)]
        ELSE IF rsync.res.ok
        THEN [st |-> "spawned", push |-> <<>>, dir |-> mk.created,
              procs |-> rsync.procs, next |-> NextDest(d, FALSE)]
        ELSE [st |-> "spawn_err", push |-> <<rsync.res>>,
              dir |-> SpawnErrDir(mk.created),
              procs |-> rsync.procs, next |-> NextDest(d, TRUE)]

\* mod.rs 212-253: one iteration of `for dest in &self.dest_paths`.
Stage2 ==
    /\ pc = "stage2"
    /\ idx \in Dests
    /\ \E probe \in {ProbeErr("df command failed")} \cup {ProbeOk(v) : v \in Sizes},
          mkdirOk \in BOOLEAN, fault \in SpawnFaults :
         LET b == Stage2Body(idx, probe, mkdirOk, fault)
         IN  /\ stage' = [stage EXCEPT ![idx] = b.st]
             /\ results' = results \o b.push
             /\ dirExists' = [dirExists EXCEPT ![idx] = b.dir]
             /\ started' = [started EXCEPT ![idx] = b.procs]
             /\ backup_handles' = IF b.st = "spawned"
                                  THEN Append(backup_handles, idx)
                                  ELSE backup_handles
             /\ proc' = IF b.st = "spawned"
                        THEN [proc EXCEPT ![idx] = "running"]
                        ELSE proc
             /\ idx' = b.next
    /\ UNCHANGED <<pc, channel, retPath, envV, contV, total_size, monV,
                   killV, sigV>>

\* mod.rs 255, 361: every destination has its Outcome.
AllDoneEarly(n) == n >= NumDests - 1

\* A run() without the return of mod.rs 256.
AllDoneNever(n) == FALSE

AllDone(n) == n = NumDests

\* mod.rs 255-257: every destination failed before a transfer was spawned.
\* total_size is not read after the loop: its value is dropped here.
AfterStage2 ==
    /\ pc = "stage2"
    /\ idx > NumDests
    /\ IF AllDone(Len(results))
       THEN /\ pc' = "returned"
            /\ retPath' = "all_failed"
            /\ UNCHANGED idx
       ELSE /\ pc' = "spawn"
            /\ idx' = 1
            /\ UNCHANGED retPath
    /\ total_size' = 0
    /\ UNCHANGED <<results, channel, proc, envV, contV, dirExists, started,
                   stage, backup_handles, monV, killV, sigV>>


\* mod.rs 262-326: thread::spawn of the monitor of backup_handles[idx].
SpawnMonitor ==
    /\ pc = "spawn"
    /\ idx \in 1..Len(backup_handles)
    /\ monPc' = [monPc EXCEPT ![backup_handles[idx]] = "start"]
    /\ IF idx = Len(backup_handles)
       THEN /\ pc' = "recv"
            /\ idx' = 0
       ELSE /\ idx' = idx + 1
            /\ UNCHANGED pc
    /\ UNCHANGED <<results, channel, proc, retPath, envV, contV, stageV,
                   handleLock, stdoutLock, reaped, stderrRead, sent, arrival, progress,
                   killV, sigV>>

\* ---------------------------------------------------------- monitor thread
\* The program has not ended: its threads still run.
Alive == pc \notin {"done", "failed", "exited"}

\* A lock() that does not wait for the mutex.
LockUnguarded(d) == TRUE

\* Mutex::lock (mod.rs 268, 272, 338) returns when the mutex is not held.
LockFree(d) == handleLock[d] = "free"

\* mod.rs 268: handle.0.lock().unwrap().stderr.take()
MonitorStart(d) ==
    /\ Alive
    /\ monPc[d] = "start"
    /\ LockFree(d)
    /\ monPc' = [monPc EXCEPT ![d] = "loop"]
    /\ UNCHANGED <<pc, idx, results, channel, proc, retPath, envV, contV,
                   stageV, handleLock, stdoutLock, reaped, stderrRead, sent, arrival, progress,
                   killV, sigV>>

\* mod.rs 272: handle.0.lock().unwrap(); the guard lives to the end of the
\* `if let` statement, that is to the end of the loop iteration.
MonitorLock(d) ==
    /\ Alive
    /\ monPc[d] = "loop"
    /\ LockFree(d)
    /\ handleLock' = [handleLock EXCEPT ![d] = "mon"]
    /\ monPc' = [monPc EXCEPT ![d] = "locked"]
    /\ UNCHANGED <<pc, idx, results, channel, proc, retPath, envV, contV,
                   stageV, stdoutLock, reaped, stderrRead, sent, arrival, progress,
                   killV, sigV>>

\* mod.rs 272, try_wait() returned Err: the `if let Ok` is skipped and the
\* loop starts over.
MonitorWaitError(d) ==
    /\ Alive
    /\ monPc[d] = "locked"
    /\ handleLock' = [handleLock EXCEPT ![d] = "free"]
    /\ monPc' = [monPc EXCEPT ![d] = "loop"]
    /\ UNCHANGED <<pc, idx, results, channel, proc, retPath, envV, contV,
                   stageV, stdoutLock, reaped, stderrRead, sent, arrival, progress,
                   killV, sigV>>

\* Mutex::lock of the stdout mutex (utils.rs 295) returns when it is free.
StdoutFree == stdoutLock = 0

\* A print_elapsed_time that keeps the stdout mutex locked.
ReleaseStdoutLeak(d) == d

\* utils.rs 309: the guard of the stdout mutex is dropped at the end of
\* print_elapsed_time.
ReleaseStdout(d) == 0

\* mod.rs 273-281 and 311-318, try_wait() returned Ok(None) or a success
\* status: the monitor calls print_elapsed_time, holding the handle lock.
MonitorPrint(d) ==
    /\ Alive
    /\ monPc[d] = "locked"
    /\ proc[d] \in {"running", "exited_ok"}
    /\ monPc' = [monPc EXCEPT ![d] = IF proc[d] = "running"
                                     THEN "progress_wait" ELSE "success_wait"]
    /\ reaped' = [reaped EXCEPT ![d] = (proc[d] = "exited_ok")]
    /\ UNCHANGED <<pc, idx, results, channel, proc, retPath, envV, contV,
                   stageV, handleLock, stdoutLock, stderrRead, sent, arrival,
                   progress, killV, sigV>>

\* utils.rs 295: stdout_mutex.lock() in print_elapsed_time.
MonitorStdoutLock(d) ==
    /\ Alive
    /\ monPc[d] \in {"progress_wait", "success_wait"}
    /\ StdoutFree
    /\ stdoutLock' = d
    /\ monPc' = [monPc EXCEPT ![d] = IF monPc[d] = "progress_wait"
                                     THEN "progress_print" ELSE "success_print"]
    /\ UNCHANGED <<pc, idx, results, channel, proc, retPath, envV, contV,
                   stageV, handleLock, reaped, stderrRead, sent, arrival,
                   progress, killV, sigV>>

\* A progress branch that also reports the running time on the channel.
ProgressSendsUpdate(d) == <<Success("running time", d)>>

\* What the progress branch (mod.rs 311-321) puts on the channel: nothing,
\* the running time goes to print_elapsed_time only.
ProgressMessages(d) == <<>>

\* mod.rs 311-321, try_wait() returned Ok(None): print the running time and
\* release the stdout mutex, sleep one second, release the handle lock at
\* the end of the iteration.
MonitorProgress(d) ==
    /\ Alive
    /\ monPc[d] = "progress_print"
    /\ stdoutLock' = ReleaseStdout(d)
    /\ progress' = TRUE
    /\ channel' = channel \o ProgressMessages(d)
    /\ sent' = [sent EXCEPT ![d] = @ + Len(ProgressMessages(d))]
    /\ handleLock' = [handleLock EXCEPT ![d] = "free"]
    /\ monPc' = [monPc EXCEPT ![d] = "loop"]
    /\ arrival' = arrival \o [k \in 1..Len(ProgressMessages(d)) |-> d]
    /\ UNCHANGED <<pc, idx, results, proc, retPath, envV, contV, stageV,
                   reaped, stderrRead, killV, sigV>>

\* A monitor that reports every failure with the generic text.
MonitorOutcomeGeneric(d, status, reader, readOk, text) ==
    IF status = "exited_ok"
    THEN Success("completed successfully", d)
    ELSE BackupError("backup error", d)

\* mod.rs 273-310: the progress Outcome for an exit status.  reader: the
\* stderr pipe was taken at 268; readOk: read_to_end succeeded; text: what
\* it read.  The text of a stderr error names no destination: dest records
\* the monitor that sent it.
MonitorOutcome(d, status, reader, readOk, text) ==
    IF status = "exited_ok"
    THEN Success("completed successfully", d)
    ELSE IF reader /\ readOk
    THEN BackupError(text, d)
    ELSE BackupError("backup error", d)

\* mod.rs 273-310, try_wait() returned Ok(Some(status)): send the progress
\* Outcome and return; on a success status after print_elapsed_time, whose
\* end releases the stdout mutex.
MonitorFinish(d) ==
    /\ Alive
    /\ \/ /\ monPc[d] = "success_print"
          /\ stdoutLock' = ReleaseStdout(d)
       \/ /\ monPc[d] = "locked"
          /\ proc[d] \in {"exited_fail", "killed"}
          /\ UNCHANGED stdoutLock
    /\ \E readOk \in BOOLEAN, text \in StderrTexts :
         /\ channel' = Append(channel, MonitorOutcome(d, proc[d], TRUE, readOk, text))
         /\ stderrRead' = [stderrRead EXCEPT ![d] =
                             IF proc[d] = "exited_ok" THEN "unread"
                             ELSE IF readOk THEN text ELSE "failed"]
    /\ sent' = [sent EXCEPT ![d] = @ + 1]
    /\ arrival' = Append(arrival, d)
    /\ reaped' = [reaped EXCEPT ![d] = TRUE]
    /\ handleLock' = [handleLock EXCEPT ![d] = "free"]
    /\ monPc' = [monPc EXCEPT ![d] = "done"]
    /\ UNCHANGED <<pc, idx, results, proc, retPath, envV, contV, stageV,
                   progress, killV, sigV>>

\* ------------------------------------------------------ transfer processes
\* A transfer process exits by itself, with a success or a failure status.
ProcExit(d) ==
    /\ Alive
    /\ proc[d] = "running"
    /\ \E status \in {"exited_ok", "exited_fail"} :
         proc' = [proc EXCEPT ![d] = status]
    /\ UNCHANGED <<pc, idx, results, channel, retPath, envV, contV, stageV,
                   monV, killV, sigV>>

\* ------------------------------------------------- run(): the receive loop
\* A receive loop that takes no message for the sentinel.
IsCancelNever(m) == FALSE

\* mod.rs 335-336: the test that takes the cancel branch.
IsCancel(m) == ~m.ok /\ m.msg = InterruptedMsg

\* A receive loop that puts the newest Outcome first.
CollectFront(res, m) == <<m>> \o res

\* mod.rs 333, 358: results.push of the Outcome received.
Collect(res, m) == Append(res, m)

\* mod.rs 328-376: try_recv() returned a message.  (An empty channel makes
\* the loop spin: no step.)
Recv ==
    /\ pc = "recv"
    /\ channel # <<>>
    /\ LET m == Head(channel)
       IN  /\ channel' = Tail(channel)
           /\ IF IsCancel(m)
              THEN /\ pc' = "kill"
                   /\ idx' = 1
                   /\ kAtCancel' = Len(results)
                   /\ resAtCancel' = results
                   /\ UNCHANGED results
              ELSE /\ results' = Collect(results, m)
                   /\ IF AllDone(Len(results) + 1)
                      THEN /\ pc' = "reset_done"
                           /\ idx' = 1
                      ELSE UNCHANGED <<pc, idx>>
                   /\ UNCHANGED <<kAtCancel, resAtCancel>>
    /\ UNCHANGED <<proc, retPath, envV, contV, stageV, monV, killIssued,
                   joined, sigV>>

\* mod.rs 338: handle.0.lock().unwrap() in the kill loop.
KillLock ==
    /\ pc = "kill"
    /\ idx \in 1..Len(backup_handles)
    /\ LockFree(backup_handles[idx])
    /\ handleLock' = [handleLock EXCEPT ![backup_handles[idx]] = "orch"]
    /\ pc' = "killing"
    /\ UNCHANGED <<idx, results, channel, proc, retPath, envV, contV, stageV,
                   monPc, stdoutLock, reaped, stderrRead, sent, arrival,
                   progress, killV, sigV>>

\* mod.rs 338-342: kill() under the lock; an Err is pushed on results.  A
\* kill that succeeds on a running process ends it.
Kill ==
    /\ pc = "killing"
    /\ LET d == backup_handles[idx]
       IN  /\ \E killOk \in BOOLEAN :
                /\ results' = IF killOk THEN results
                              ELSE Append(results, BackupError("kill failed", 0))
                /\ proc' = IF killOk /\ proc[d] = "running"
                           THEN [proc EXCEPT ![d] = "killed"]
                           ELSE proc
           /\ killIssued' = [killIssued EXCEPT ![d] = TRUE]
           /\ handleLock' = [handleLock EXCEPT ![d] = "free"]
    /\ IF idx = Len(backup_handles)
       THEN /\ pc' = "join_cancel"
            /\ idx' = 1
       ELSE /\ pc' = "kill"
            /\ idx' = idx + 1
    /\ UNCHANGED <<channel, retPath, envV, contV, stageV, monPc, stdoutLock,
                   reaped, stderrRead, sent, arrival, progress, joined, kAtCancel,
                   resAtCancel,
                   sigV>>

\* A cancel branch that returns without its own entry.
CancelReportNone(res) == res

\* A cancel branch that reports the interruption alone.
CancelReportOnly(res) == <<BackupError(InterruptedMsg, 0)>>

\* mod.rs 355: the entry the cancel branch ends the report with.
CancelReport(res) == Append(res, BackupError(InterruptedMsg, 0))

\* A join loop that ends after its first join.
MoreToJoinNone(i) == FALSE

\* mod.rs 344, 364: `for join_handle in join_handles` has a next handle.
MoreToJoin(i) == i < Len(backup_handles)

\* mod.rs 349-356 and 362: reset_cursor_after_timers locks the stdout mutex
\* (utils.rs 312) and releases it at its end; on the cancel branch the
\* interrupted error is then pushed and run() returns, on the completion
\* path the join loop follows.
ResetCursor ==
    /\ pc \in {"reset_cancel", "reset_done"}
    /\ StdoutFree
    /\ IF pc = "reset_cancel"
       THEN /\ results' = CancelReport(results)
            /\ retPath' = "cancelled"
            /\ pc' = "returned"
            /\ idx' = 0
       ELSE /\ pc' = "join_done"
            /\ UNCHANGED <<idx, results, retPath>>
    /\ UNCHANGED <<channel, proc, envV, contV, stageV, monV, killV, sigV>>

\* A join() that returns while the thread runs.
JoinNoWait(d) == TRUE

\* JoinHandle::join (mod.rs 345, 365) returns once the thread has ended.
JoinReady(d) == monPc[d] = "done"

\* mod.rs 344-348 and 364-370: join the next monitor (join returns once the
\* thread has ended); after the last one, go on to the reset of the cursor
\* on the cancel branch, return on the completion path.
Join ==
    /\ pc \in {"join_cancel", "join_done"}
    /\ idx \in 1..Len(backup_handles)
    /\ JoinReady(backup_handles[idx])
    /\ joined' = [joined EXCEPT ![backup_handles[idx]] = TRUE]
    /\ IF MoreToJoin(idx)
       THEN /\ idx' = idx + 1
            /\ UNCHANGED <<pc, results, retPath>>
       ELSE /\ idx' = 0
            /\ UNCHANGED results
            /\ IF pc = "join_cancel"
               THEN /\ pc' = "reset_cancel"
                    /\ UNCHANGED retPath
               ELSE /\ pc' = "returned"
                    /\ retPath' = "completed"
    /\ UNCHANGED <<channel, proc, envV, contV, stageV, monV, killIssued,
                   kAtCancel, resAtCancel, sigV>>

\* ------------------------------------------------------- backup(), suffix
\* mod.rs 176-181: run() has returned; start the containers that were
\* stopped.  A failure returns from backup() through `?`.
StartContainers ==
    /\ pc = "returned"
    /\ \E startOk \in BOOLEAN :
         IF containers = "stopped"
         THEN /\ dockerCalls' = DockerCall("start", startOk)
              /\ IF startOk
                 THEN /\ containers' = "restarted"
                      /\ pc' = "notify"
                 ELSE /\ pc' = "failed"
                      /\ UNCHANGED containers
         ELSE /\ pc' = "notify"
              /\ UNCHANGED <<containers, dockerCalls>>
    /\ UNCHANGED <<idx, results, channel, proc, retPath, envV, notified,
                   excluded_containers, running_containers, stageV, monV, killV,
                   sigV>>

\* mod.rs 183-194: notify every result, return Ok(()).
Notify ==
    /\ pc = "notify"
    /\ notified' = results
    /\ pc' = "done"
    /\ UNCHANGED <<idx, results, channel, proc, retPath, envV, containers,
                   excluded_containers, running_containers, dockerCalls, stageV,
                   monV, killV, sigV>>

\* ------------------------------------------------------- the ctrlc handler
\* The destinations whose stage 2 ended in an Err.
Stage2Failed == {d \in Dests : stage[d] \in {"space_err", "prepare_err", "spawn_err"}}

\* Terminal Outcomes produced so far: the failures of stage 2 and the
\* Outcomes the monitors have sent.
Produced == Cardinality(Stage2Failed) + Cardinality({d \in Dests : sent[d] > 0})

\* mod.rs 169-253: the main thread is between the installation of the
\* handler and the end of the loop over the destinations.
Preparing == pc \in {"stop", "estimate"} \/ (pc = "stage2" /\ idx \in Dests)

\* A handler that takes every interrupt for the first.
AlwaysFirst == TRUE

\* mod.rs 153: the handler's test for the first interrupt.
IsFirstInterrupt == call_count = 0

\* mod.rs 152-163: one run of the handler.  It is installed from line 152
\* to the end of the process.
Interrupt ==
    /\ Alive
    /\ pc # "backup"
    /\ IF IsFirstInterrupt
       THEN /\ channel' = Append(channel, Sentinel)
            /\ call_count' = call_count + 1
            /\ sentinels' = sentinels + 1
            /\ kAtSignal' = IF retPath = "none" THEN Produced ELSE kAtSignal
            /\ phaseAtSignal' = IF Preparing THEN "preparing" ELSE "later"
            /\ UNCHANGED pc
       ELSE /\ pc' = "exited"
            /\ UNCHANGED <<channel, sigV>>
    /\ UNCHANGED <<idx, results, proc, retPath, envV, contV, stageV, monV,
                   killV>>

Next ==
    \/ BackupStart
    \/ StopContainers
    \/ Estimate
    \/ Stage2
    \/ AfterStage2
    \/ SpawnMonitor
    \/ \E d \in Dests : MonitorStart(d)
    \/ \E d \in Dests : MonitorLock(d)
    \/ \E d \in Dests : MonitorWaitError(d)
    \/ \E d \in Dests : MonitorPrint(d)
    \/ \E d \in Dests : MonitorStdoutLock(d)
    \/ \E d \in Dests : MonitorProgress(d)
    \/ \E d \in Dests : MonitorFinish(d)
    \/ \E d \in Dests : ProcExit(d)
    \/ Recv
    \/ KillLock
    \/ Kill
    \/ ResetCursor
    \/ Join
    \/ StartContainers
    \/ Notify
    \/ Interrupt

Spec == Init /\ [][Next]_vars

\* backup() with any --exclude-containers (mod.rs 110-113).
ConsumerInit ==
    /\ Fresh
    /\ prevStage = NoRun
    /\ files = [d \in Dests |-> {}]
    /\ prepared = <<>>
    /\ args = NoArgs
    /\ ret = NoRet
    /\ excluded_containers \in SUBSET ContainerNames

ConsumerSpec == ConsumerInit /\ [][Next]_vars

\* ------------------------------------------------------- a second run
\* The program has ended and is run again with the same new_dir (on the
\* same day, mod.rs 63-64): a new process on the disk the first one left.
Rerun ==
    /\ ~Alive
    /\ prevStage = NoRun
    /\ pc' = "backup"
    /\ idx' = 0
    /\ results' = <<>>
    /\ channel' = <<>>
    /\ proc' = [d \in Dests |-> "none"]
    /\ retPath' = "none"
    /\ exclusionsOk' \in BOOLEAN
    /\ dirExists' = dirExists
    /\ dirBefore' = dirExists
    /\ containers' = "none"
    /\ running_containers' = {}
    /\ dockerCalls' = <<>>
    /\ notified' = <<>>
    /\ total_size' = 0
    /\ started' = [d \in Dests |-> {}]
    /\ stage' = [d \in Dests |-> "pending"]
    /\ backup_handles' = <<>>
    /\ monPc' = [d \in Dests |-> "none"]
    /\ handleLock' = [d \in Dests |-> "free"]
    /\ stdoutLock' = 0
    /\ reaped' = [d \in Dests |-> FALSE]
    /\ stderrRead' = [d \in Dests |-> "unread"]
    /\ sent' = [d \in Dests |-> 0]
    /\ arrival' = <<>>
    /\ progress' = FALSE
    /\ killIssued' = [d \in Dests |-> FALSE]
    /\ joined' = [d \in Dests |-> FALSE]
    /\ kAtCancel' = -1
    /\ resAtCancel' = <<>>
    /\ call_count' = 0
    /\ sentinels' = 0
    /\ kAtSignal' = -1
    /\ phaseAtSignal' = "none"
    /\ files' = files
    /\ prevStage' = stage
    /\ UNCHANGED <<prepared, args, ret, excluded_containers>>

RerunNext == Next \/ Rerun

RerunSpec == Init /\ [][RerunNext]_vars

\* ------------------------------------------- create_new_dir, call by call
\* utils::create_new_dir (LocalDestination::prepare) called for the Local
\* destination d: the directory is created, empty, when the call succeeds.
Prepare(d) ==
    /\ dest_paths[d] = "Local"
    /\ Len(prepared) < MaxPrepares
    /\ \E mkdirOk \in BOOLEAN :
         LET r == create_new_dir(d, dirExists[d], mkdirOk)
         IN  /\ dirExists' = [dirExists EXCEPT ![d] = r.created]
             /\ prepared' = Append(prepared, [dest |-> d, res |-> r.res])
    /\ UNCHANGED <<pc, idx, results, channel, proc, retPath, exclusionsOk,
                   dirBefore, files, prevStage, args, ret, contV, total_size, started,
                   stage, backup_handles, monV, killV, sigV>>

\* rsync (mod.rs 385-387) writes file f into the directory of d.
TransferWrites(d, f) ==
    /\ dest_paths[d] = "Local"
    /\ dirExists[d]
    /\ f \notin files[d]
    /\ files' = [files EXCEPT ![d] = @ \cup {f}]
    /\ UNCHANGED <<pc, idx, results, channel, proc, retPath, exclusionsOk,
                   dirBefore, prepared, prevStage, args, ret, contV, stageV, monV, killV,
                   sigV>>

\* A directory that exists has any contents, one that does not has none.
PrepareInit ==
    /\ Fresh
    /\ prevStage = NoRun
    /\ files \in [Dests -> SUBSET FileNames]
    /\ \A d \in Dests : ~dirExists[d] => files[d] = {}
    /\ prepared = <<>>
    /\ args = NoArgs
    /\ ret = NoRet
    /\ excluded_containers = {}

PrepareNext ==
    \/ \E d \in Dests : Prepare(d)
    \/ \E d \in Dests, f \in FileNames : TransferWrites(d, f)

PrepareSpec == PrepareInit /\ [][PrepareNext]_vars

\* ------------------------------------------- helpers called on their own
\* The program before backup() begins, with nothing on the disk.
Quiet ==
    /\ Fresh
    /\ prevStage = NoRun
    /\ exclusionsOk
    /\ \A d \in Dests : ~dirExists[d]
    /\ files = [d \in Dests |-> {}]
    /\ prepared = <<>>
    /\ ret = NoRet
    /\ excluded_containers = {}

\* The call returns val; nothing else of the program moves.
Return(val) ==
    /\ ~ret.set
    /\ ret' = [set |-> TRUE, val |-> val]
    /\ UNCHANGED <<pc, idx, results, channel, proc, retPath, exclusionsOk,
                   dirBefore, files, prepared, prevStage, args, contV, stageV, monV, killV,
                   sigV>>

\* What available_space can be when check_available_space asks for it.
Probes == {ProbeErr(m) : m \in ProbeErrors} \cup {ProbeOk(v) : v \in Bytes}

SpaceInit ==
    /\ Quiet
    /\ args \in [fn : {"check_available_space"}, d : Dests, probe : Probes,
                  required_size : Bytes]

\* utils.rs 146-167 on the arguments drawn.
CheckSpace ==
    /\ args.fn = "check_available_space"
    /\ Return(check_available_space(args.d, args.probe, args.required_size))

SpaceSpec == SpaceInit /\ [][CheckSpace]_vars

\* A whitespace-separated word of a df output: one u64::parse accepts, with
\* its value, or one it rejects.  The values stay far below 2^64 / 1024.
Num(v) == [num |-> TRUE, val |-> v]
Word == [num |-> FALSE, val |-> 0]
Tokens == {Num(v) : v \in 0..MaxKb} \cup {Word}

\* A line of output as the words on it.
Rows == UNION {[1..n -> Tokens] : n \in 0..MaxCols}
Header == <<Word>>

\* What a command printed: nothing, the header only, or the header and a
\* row.
Outputs == {<<>>, <<Header>>} \cup {<<Header, row>> : row \in Rows}

\* Command::output() of an ssh command: it could not be executed, it
\* reported failure, or it reported success and printed lines.
CmdResults ==
    {[exec |-> "error", lines |-> <<>>], [exec |-> "fail", lines |-> <<>>]}
        \cup {[exec |-> "ok", lines |-> o] : o \in Outputs}

DfPrimary == "df -B1 --output=avail"
DfSecondary == "df -k"

\* utils.rs 251-254: lines[1].trim().parse::<u64>() takes a line that is
\* one number and nothing else.
ParseLine(row) ==
    IF Len(row) = 1 /\ row[1].num
    THEN ProbeOk(row[1].val)
    ELSE ProbeErr("Failed to parse available space")

\* utils.rs 225-242: the fallback's reading of the output of df -k.
ParseDfK(secondary) ==
    IF secondary.exec = "error" THEN ProbeErr("Failed to execute ssh")
    ELSE IF secondary.exec = "fail" THEN ProbeErr("ssh df command failed")
    ELSE IF Len(secondary.lines) < 2 THEN ProbeErr("Invalid df output")
    ELSE IF Len(secondary.lines[2]) < 4 THEN ProbeErr("Invalid df output format")
    ELSE IF ~secondary.lines[2][4].num
    THEN ProbeErr("Failed to parse available space")
    ELSE ProbeOk(secondary.lines[2][4].val * 1024)

\* utils.rs 245-254: the reading of the output of the primary command.
ParseAvail(primary) ==
    IF Len(primary.lines) < 2 THEN ProbeErr("Invalid df output")
    ELSE ParseLine(primary.lines[2])

\* A probe that also falls back when the primary's output does not parse.
SshProbeFallbackOnParse(primary, secondary) ==
    IF primary.exec = "error"
    THEN [res |-> ProbeErr("Failed to execute ssh"), cmds |-> {DfPrimary}]
    ELSE IF primary.exec = "fail" \/ ~ParseAvail(primary).ok
    THEN [res |-> ParseDfK(secondary), cmds |-> {DfPrimary, DfSecondary}]
    ELSE [res |-> ParseAvail(primary), cmds |-> {DfPrimary}]

\* utils::check_ssh_available_space for TargetOs::Unix (utils.rs 202-255),
\* given what the two commands would answer: its result and the commands
\* it ran.
check_ssh_available_space(primary, secondary) ==
    IF primary.exec = "error"
    THEN [res |-> ProbeErr("Failed to execute ssh"), cmds |-> {DfPrimary}]
    ELSE IF primary.exec = "fail"
    THEN [res |-> ParseDfK(secondary), cmds |-> {DfPrimary, DfSecondary}]
    ELSE [res |-> ParseAvail(primary), cmds |-> {DfPrimary}]

SshProbeInit ==
    /\ Quiet
    /\ args \in [fn : {"check_ssh_available_space"}, primary : CmdResults,
                  secondary : CmdResults]

SshProbe ==
    /\ args.fn = "check_ssh_available_space"
    /\ Return(check_ssh_available_space(args.primary, args.secondary))

SshProbeSpec == SshProbeInit /\ [][SshProbe]_vars

\* ------------------------------------------------- the volume directory
\* A name is the sequence of its characters.
Alphabet == {"m", "v"}
VolNames == UNION {[1..n -> Alphabet] : n \in 1..MaxName}

\* Two names of which one ends with the other.
EstimateNames == {<<"v">>, <<"m", "v">>}

\* What a path is on the disk: a file with its length, a file whose
\* metadata() fails, a directory with what read_dir yields for it, a
\* directory whose read_dir fails; BadEntry is an Err that the iterator of
\* read_dir yields in place of an entry.
File(n) == [kind |-> "file", size |-> n, entries |-> <<>>]
BadFile == [kind |-> "file_err", size |-> 0, entries |-> <<>>]
Dir(es) == [kind |-> "dir", size |-> 0, entries |-> es]
BadDir == [kind |-> "dir_err", size |-> 0, entries |-> <<>>]
BadEntry == [kind |-> "entry_err", size |-> 0, entries |-> <<>>]

Listings(S) == UNION {[1..n -> S \cup {BadEntry}] : n \in 0..MaxEntries}

RECURSIVE Nodes(_)
Nodes(depth) ==
    IF depth = 0
    THEN {File(n) : n \in 1..MaxFile} \cup {BadFile}
    ELSE Nodes(0) \cup {BadDir} \cup {Dir(es) : es \in Listings(Nodes(depth - 1))}

\* The entries of volume_path: each a name and what is there, no name
\* twice.
RootEntries(names, S) ==
    {[name |-> n, node |-> t] : n \in names, t \in S \cup {BadEntry}}

RootListings(names, S) ==
    {es \in UNION {[1..n -> RootEntries(names, S)] : n \in 0..MaxEntries} :
        \A i, j \in 1..Len(es) :
          (i # j /\ es[i].node # BadEntry /\ es[j].node # BadEntry)
            => es[i].name # es[j].name}

\* excluded_volumes / dirs_to_exclude.
ExcludeLists(names) == UNION {[1..n -> names] : n \in 0..MaxExcluded}

\* str::ends_with.
ends_with(x, suffix) ==
    /\ Len(suffix) <= Len(x)
    /\ SubSeq(x, Len(x) - Len(suffix) + 1, Len(x)) = suffix

\* Vec::contains.
contains(list, x) == \E i \in 1..Len(list) : list[i] = x

\* utils::get_dir_size (utils.rs 128-144) on a path, the loop of lines
\* 131-139 being ForDirEntries.
RECURSIVE get_dir_size(_), ForDirEntries(_, _)
ForDirEntries(entries, size) ==
    IF entries = <<>> THEN ProbeOk(size)
    ELSE LET entry == Head(entries)
         IN  IF entry.kind = "entry_err" THEN ProbeErr("entry")
             ELSE IF entry.kind \in {"dir", "dir_err"}
             THEN LET r == get_dir_size(entry)
                  IN  IF r.ok THEN ForDirEntries(Tail(entries), size + r.val)
                      ELSE r
             ELSE IF entry.kind = "file_err" THEN ProbeErr("metadata")
             ELSE ForDirEntries(Tail(entries), size + entry.size)

get_dir_size(path) ==
    IF path.kind = "dir" THEN ForDirEntries(path.entries, 0)
    ELSE IF path.kind = "dir_err" THEN ProbeErr("read_dir")
    ELSE IF path.kind = "file_err" THEN ProbeErr("metadata")
    ELSE ProbeOk(path.size)

\* An iteration that goes on when the size of a child cannot be had.
VolumeSizePartial(entry, excluded_volumes) ==
    IF entry.node.kind = "entry_err" THEN ProbeErr("Failed to read entry")
    ELSE IF contains(excluded_volumes, entry.name) THEN ProbeOk(0)
    ELSE IF get_dir_size(entry.node).ok THEN get_dir_size(entry.node)
    ELSE ProbeOk(0)

\* utils.rs 111-123: what one iteration of the loop of get_volumes_size
\* adds to total_size, or the error it returns with.
VolumeSize(entry, excluded_volumes) ==
    IF entry.node.kind = "entry_err" THEN ProbeErr("Failed to read entry")
    ELSE IF contains(excluded_volumes, entry.name) THEN ProbeOk(0)
    ELSE IF get_dir_size(entry.node).ok THEN get_dir_size(entry.node)
    ELSE ProbeErr("Failed to calculate size")

RECURSIVE ForVolumes(_, _, _)
ForVolumes(entries, excluded_volumes, total) ==
    IF entries = <<>> THEN ProbeOk(total)
    ELSE LET r == VolumeSize(Head(entries), excluded_volumes)
         IN  IF r.ok
             THEN ForVolumes(Tail(entries), excluded_volumes, total + r.val)
             ELSE r

\* utils::get_volumes_size (utils.rs 102-126).  root is BadDir when
\* read_dir(volume_path) fails, and the listing of volume_path otherwise.
get_volumes_size(root, excluded_volumes) ==
    IF root = BadDir THEN ProbeErr("Failed to read volume directory")
    ELSE ForVolumes(root, excluded_volumes, 0)

EstimateInit ==
    /\ Quiet
    /\ args \in [fn : {"get_volumes_size"},
                  root : {BadDir} \cup RootListings(EstimateNames, Nodes(MaxDepth)),
                  excluded : ExcludeLists(EstimateNames)]

EstimateSize ==
    /\ args.fn = "get_volumes_size"
    /\ Return(get_volumes_size(args.root, args.excluded))

EstimateSpec == EstimateInit /\ [][EstimateSize]_vars

\* utils.rs 40-44: the names of the children of volume_path.
VolumesOf(root) == {root[i].name : i \in 1..Len(root)}

\* utils.rs 46-47: the children the validation takes an excluded name for.
Matched(volumes, volume) == {x \in volumes : ends_with(x, volume)}

\* utils.rs 46-54: every excluded name is the suffix of a child's name.
ExclusionsExist(volumes, dirs_to_exclude) ==
    \A i \in 1..Len(dirs_to_exclude) : Matched(volumes, dirs_to_exclude[i]) # {}

\* utils.rs 117-119: the children the estimator leaves out.
Skipped(root, excluded_volumes) ==
    {root[i].name : i \in {j \in 1..Len(root) : contains(excluded_volumes, root[j].name)}}

\* A volume directory of one-byte files, read without error.
ExclusionInit ==
    /\ Quiet
    /\ args \in [fn : {"exclude_volumes"},
                  root : RootListings(VolNames, {File(1)}),
                  excluded : ExcludeLists(VolNames)]
    /\ \A i \in 1..Len(args.root) : args.root[i].node # BadEntry

\* The validation of the spawn and the estimate on the same directory and
\* the same list.
Exclusion ==
    /\ args.fn = "exclude_volumes"
    /\ Return([valid |-> exclude_volumes(0, ExclusionsExist(VolumesOf(args.root),
                                                           args.excluded)),
               skipped |-> Skipped(args.root, args.excluded),
               total |-> get_volumes_size(args.root, args.excluded)])

ExclusionSpec == ExclusionInit /\ [][Exclusion]_vars

\* ------------------------------------------- the exclusion list of build()
\* The name build() adds to every exclusion list (mod.rs 119).
PolicyExclusion == <<"backingFsBlockDev">>

\* The names of the children of volume_root in a run of the whole program.
PolicyNames == {PolicyExclusion, <<"m">> \o PolicyExclusion, <<"v">>}

\* A build() that leaves the list as the command line gave it.
BuildUserOnly(user) == user

\* mod.rs 114-119: excluded_volumes is the --exclude-volumes list with
\* "backingFsBlockDev" pushed at its end.
build(user) == Append(user, PolicyExclusion)

\* The program run on a volume directory whose children are listed:
\* exclude_volumes succeeds exactly when every name of the list build()
\* made is the suffix of a child's name (utils.rs 46-54).
PolicyInit ==
    /\ Fresh
    /\ prevStage = NoRun
    /\ files = [d \in Dests |-> {}]
    /\ prepared = <<>>
    /\ ret = NoRet
    /\ excluded_containers = {}
    /\ args \in [fn : {"build"},
                  root : RootListings(PolicyNames, {File(1)}),
                  user : ExcludeLists({<<"v">>})]
    /\ \A i \in 1..Len(args.root) : args.root[i].node # BadEntry
    /\ exclusionsOk = ExclusionsExist(VolumesOf(args.root), build(args.user))

PolicySpec == PolicyInit /\ [][Next]_vars

\* The steps of the main thread: backup() and the run() it calls.
Main ==
    \/ BackupStart
    \/ StopContainers
    \/ Estimate
    \/ Stage2
    \/ AfterStage2
    \/ SpawnMonitor
    \/ Recv
    \/ KillLock
    \/ Kill
    \/ ResetCursor
    \/ Join
    \/ StartContainers
    \/ Notify

\* The steps of the monitor thread of destination d.
Monitor(d) ==
    \/ MonitorStart(d)
    \/ MonitorLock(d)
    \/ MonitorWaitError(d)
    \/ MonitorPrint(d)
    \/ MonitorStdoutLock(d)
    \/ MonitorProgress(d)
    \/ MonitorFinish(d)

\* The scheduler lets every thread that can take a step take one, and every
\* transfer process comes to its end; nothing is assumed on the interrupts,
\* on the results of the system calls or on who gets a contended mutex.
FairSpec ==
    /\ Spec
    /\ WF_vars(Main)
    /\ \A d \in Dests : WF_vars(Monitor(d)) /\ WF_vars(ProcExit(d))

\* The scheduler lets every thread that can take a step take one: weak
\* fairness of the main thread and of the monitors, and nothing more.
ThreadFairSpec ==
    /\ Spec
    /\ WF_vars(Main)
    /\ \A d \in Dests : WF_vars(Monitor(d))


\* ------------------------------------------------------------- properties
\* run() has returned.
Returned == retPath # "none"

\* The loop over the destinations (stage 2) has ended.
Stage2Over ==
    \/ pc \in {"spawn", "recv", "kill", "killing", "join_cancel", "join_done",
              "reset_cancel", "reset_done"}
    \/ retPath \in {"all_failed", "completed", "cancelled"}

\* The entries of results that record a failed kill().
KillFailures == Cardinality({k \in 1..Len(results) : results[k].msg = "kill failed"})

\* C1: when the estimate and every space check, prepare and spawn succeeded
\* and no interrupt occurred, run() returns exactly N Outcomes, one for each
\* destination, whatever the order and the exit statuses of the transfers.
C1_OnePerDestination ==
    (Returned /\ sentinels = 0 /\ \A d \in Dests : stage[d] = "spawned")
    => /\ Len(results) = NumDests
       /\ \A d \in Dests : Cardinality(OfDest(results, d)) = 1

\* C2: if the sentinel is enqueued during run() when K destinations have
\* produced their Outcome, the report run() returns has length K + 1 and
\* every destination without an Outcome in it has had kill() issued.
C2_LengthKPlusOne ==
    (Returned /\ kAtSignal >= 0)
    => /\ Len(results) = kAtSignal + 1
       /\ \A d \in Dests :
            (stage[d] = "spawned" /\ OfDest(results, d) = {}) => killIssued[d]

\* C2, amended: when the cancel branch is taken with K Outcomes in the
\* report (then K < N), run() returns K + F + 1 entries, F being the kills
\* that failed, the last one the interrupted error, and kill() has been
\* issued on every handle; run() issues no kill on any other return, and a
\* run that collected all N Outcomes first returns those N.
C2_CancelReport ==
    /\ retPath = "cancelled"
       => /\ kAtCancel >= 0
          /\ kAtCancel < NumDests
          /\ Len(results) = kAtCancel + KillFailures + 1
          /\ results[Len(results)] = BackupError(InterruptedMsg, 0)
          /\ \A k \in 1..Len(backup_handles) : killIssued[backup_handles[k]]
    /\ (Returned /\ retPath # "cancelled") => \A d \in Dests : ~killIssued[d]
    /\ retPath = "completed" => Len(results) = NumDests

C2_Witness ==
    /\ retPath = "cancelled"
    /\ kAtSignal = 1
    /\ kAtCancel = 1
    /\ KillFailures = 0
    /\ Len(results) = 2
    /\ \E d \in Dests : proc[d] = "killed" /\ killIssued[d]

\* The positions of a monitor in which it holds the lock of its handle.
MonHolding ==
    {"locked", "progress_wait", "success_wait", "progress_print", "success_print"}

\* C3: the monitor's try_wait and the orchestrator's kill never run at the
\* same time on one handle: each runs only while its thread holds the
\* handle's mutex.
C3_WaitKillExclusive ==
    /\ \A d \in Dests : monPc[d] \in MonHolding => handleLock[d] = "mon"
    /\ pc = "killing" => handleLock[backup_handles[idx]] = "orch"
    /\ \A d \in Dests :
         ~(monPc[d] \in MonHolding /\ pc = "killing" /\ backup_handles[idx] = d)

\* The kill of a handle is under way while its monitor is between two polls,
\* and another monitor is inside its own poll.
C3_Witness ==
    /\ pc = "killing"
    /\ monPc[backup_handles[idx]] = "loop"
    /\ \E d \in Dests : monPc[d] = "locked"

\* C4: a failure of the space check, the prepare or the spawn of one
\* destination records exactly one Error for it, and every other
\* destination still goes through its own iteration: the loop reaches each
\* destination in turn, and at its end each one has either its single Error
\* among the stage-2 entries or its transfer process.
C4_FaultIsolation ==
    /\ pc = "stage2" => \A d \in Dests : (d < idx) <=> (stage[d] # "pending")
    /\ Stage2Over =>
         /\ Len(results) >= Cardinality(Stage2Failed)
         /\ \A d \in Dests :
              /\ stage[d] # "pending"
              /\ d \in Stage2Failed =>
                   /\ Cardinality({k \in 1..Cardinality(Stage2Failed) :
                                     results[k].dest = d /\ ~results[k].ok}) = 1
                   /\ proc[d] = "none"
              /\ d \notin Stage2Failed =>
                   /\ \A k \in 1..Cardinality(Stage2Failed) : results[k].dest # d
                   /\ proc[d] # "none"

\* The first destination failed, the second one was spawned all the same.
C4_Witness ==
    /\ Stage2Over
    /\ stage[1] \in {"space_err", "prepare_err", "spawn_err"}
    /\ stage[NumDests] = "spawned"
    /\ monPc[NumDests] # "none"

\* What a destination whose space check failed has been through: no
\* prepare, no spawn, no monitor, one entry in results.
SpaceErrUntouched(d) ==
    /\ proc[d] = "none"
    /\ started[d] = {}
    /\ monPc[d] = "none"
    /\ dirExists[d] = dirBefore[d]
    /\ \A k \in 1..Len(backup_handles) : backup_handles[k] # d
    /\ Cardinality(OfDest(results, d)) = 1

\* C5: a destination whose check_available_space failed is never prepared,
\* spawned or monitored, and its Outcome is the insufficient-space error
\* with available < required.
C5_InsufficientSpace ==
    \A d \in Dests :
      stage[d] = "space_err" =>
        /\ SpaceErrUntouched(d)
        /\ \A k \in OfDest(results, d) :
             /\ ~results[k].ok
             /\ results[k].msg = "Not enough space on destination"
             /\ results[k].avail < results[k].req

\* C5, amended: ... and its Outcome is the error of the space probe when
\* the probe failed, and otherwise the insufficient-space error with
\* available < required.
C5_SpaceCheckFailure ==
    \A d \in Dests :
      stage[d] = "space_err" =>
        /\ SpaceErrUntouched(d)
        /\ \A k \in OfDest(results, d) :
             /\ ~results[k].ok
             /\ \/ results[k].msg \in ProbeErrors
                \/ /\ results[k].msg = "Not enough space on destination"
                   /\ results[k].avail < results[k].req

C5_Witness ==
    /\ pc = "recv"
    /\ stage[1] = "space_err"
    /\ results[1].msg = "Not enough space on destination"
    /\ results[1].avail < results[1].req

\* C6: when the size estimator fails, run() returns at once with a report
\* of exactly one Error, and no destination has had a space check, a
\* prepare, a spawn or a monitor.
C6_EstimatorFailure ==
    (\E k \in 1..Len(results) : results[k].msg = "Failed to read volume directory")
    => /\ retPath = "estimator"
       /\ Len(results) = 1
       /\ ~results[1].ok
       /\ backup_handles = <<>>
       /\ \A d \in Dests :
            /\ stage[d] = "pending"
            /\ proc[d] = "none"
            /\ started[d] = {}
            /\ monPc[d] = "none"
            /\ dirExists[d] = dirBefore[d]

C6_Witness ==
    /\ pc = "returned"
    /\ retPath = "estimator"
    /\ Len(results) = 1

\* C7: the report run() returns has at most N entries, and fewer than N
\* only when run() returned through the cancel branch.
C7_AtMostN ==
    Returned
    => /\ Len(results) <= NumDests
       /\ Len(results) < NumDests => retPath = "cancelled"

\* C7, amended: the report has at most N entries plus one for each kill
\* that failed on the cancel branch, and fewer than N only when run()
\* returned through the cancel branch or through the estimator failure.
C7_ReportLength ==
    Returned
    => /\ Len(results) <= NumDests + KillFailures
       /\ KillFailures > 0 => retPath = "cancelled"
       /\ Len(results) < NumDests => retPath \in {"cancelled", "estimator"}

\* A cancelled run whose report is longer than N: both kills failed.
C7_Witness ==
    /\ retPath = "cancelled"
    /\ KillFailures > 0
    /\ Len(results) > NumDests

\* C8: a monitor sends one message in its lifetime, its terminal Outcome,
\* when it ends; the running-time updates never go on the channel, so at most
\* one message of each monitor is on the channel or in results, and the
\* receive loop has counted one entry for each Outcome it took.
C8_OneMessagePerMonitor ==
    /\ \A d \in Dests :
         /\ sent[d] = (IF monPc[d] = "done" THEN 1 ELSE 0)
         /\ stage[d] = "spawned" =>
              Cardinality(OfDest(channel, d)) + Cardinality(OfDest(results, d)) <= sent[d]
         /\ stage[d] # "spawned" => OfDest(channel, d) = {}
    /\ pc = "recv" =>
         Len(results) = Cardinality(Stage2Failed)
                        + Cardinality({d \in Dests : stage[d] = "spawned"
                                                     /\ OfDest(results, d) # {}})

\* A running-time update was printed, and a monitor has ended with its one
\* message counted by the receive loop.
C8_Witness ==
    /\ progress
    /\ \E d \in Dests :
         /\ monPc[d] = "done"
         /\ sent[d] = 1
         /\ Cardinality(OfDest(results, d)) = 1

\* C9: the handler enqueues the sentinel on the first interrupt only; a
\* later interrupt ends the process and enqueues nothing.
C9_SentinelOnce ==
    /\ sentinels <= 1
    /\ call_count = sentinels
    /\ Cardinality({k \in 1..Len(channel) : channel[k] = Sentinel}) <= sentinels
    /\ pc = "exited" => sentinels = 1

C9_Witness ==
    /\ pc = "exited"
    /\ sentinels = 1
    /\ call_count = 1

\* C10: the handler never kills a transfer and never joins a monitor: a
\* kill is issued by the main thread only, after the handler's sentinel was
\* enqueued and received, and a join by the main thread only, on a return
\* path of run().
C10_KillJoinInControlLoop ==
    [][ /\ (sentinels' # sentinels \/ pc' = "exited")
           => UNCHANGED <<killIssued, joined, proc, handleLock>>
        /\ killIssued' # killIssued
           => pc = "killing" /\ sentinels >= 1 /\ Sentinel \notin {channel[k] : k \in 1..Len(channel)}
        /\ joined' # joined => pc \in {"join_cancel", "join_done"}
      ]_vars

\* C11: under cancellation the Outcomes that were in the report when the
\* cancel branch was taken stay in it, in the same order, from the first
\* position on, and come before the final interrupted error.
C11_PartialResultsKept ==
    kAtCancel >= 0
    => /\ Len(resAtCancel) = kAtCancel
       /\ Len(results) >= kAtCancel
       /\ SubSeq(results, 1, kAtCancel) = resAtCancel
       /\ retPath = "cancelled" =>
            /\ Len(results) > kAtCancel
            /\ results[Len(results)] = BackupError(InterruptedMsg, 0)
            /\ \A k \in 1..kAtCancel : results[k] # BackupError(InterruptedMsg, 0)

\* A cancelled run returned a stage-2 failure and a monitor's Outcome that
\* it had collected, a failed kill after them, the interrupted error last.
C11_Witness ==
    /\ retPath = "cancelled"
    /\ sentinels = 1
    /\ kAtCancel = 1
    /\ resAtCancel # <<>>
    /\ resAtCancel[1].dest \in Dests
    /\ KillFailures = 1
    /\ Len(results) = 3

\* C12: the kill loop issues kill() on every handle whose process has not
\* ended, and on no handle whose process has ended and whose monitor has
\* delivered its Outcome.
C12_KillOnlyUnterminated ==
    [][ /\ \A d \in Dests :
             (killIssued'[d] /\ ~killIssued[d])
             => ~(reaped[d] /\ sent[d] > 0 /\ OfDest(results, d) # {})
        /\ (pc = "killing" /\ pc' = "join_cancel")
           => \A d \in Dests : proc[d] = "running" => killIssued'[d]
      ]_vars

\* C13: a kill that fails is recorded as one more Error and the drain goes
\* on: once the cancel branch is entered, run() comes to return with every
\* handle killed, every monitor joined, one entry for each kill that failed
\* and the interrupted error last (unless a second interrupt ends the
\* process first).
C13_DrainReturns ==
    (pc = "kill")
    ~> \/ pc = "exited"
       \/ /\ retPath = "cancelled"
          /\ \A k \in 1..Len(backup_handles) :
               killIssued[backup_handles[k]] /\ joined[backup_handles[k]]
          /\ Len(results) = kAtCancel + KillFailures + 1
          /\ results[Len(results)] = BackupError(InterruptedMsg, 0)

\* C14: when every destination failed in stage 2, run() returns the
\* Outcomes of stage 2, one for each destination in input order, and no
\* monitor was started and nothing was received from the channel.
C14_AllFailedReturn ==
    /\ (Stage2Over /\ Stage2Failed = Dests) => retPath = "all_failed"
    /\ retPath = "all_failed" =>
         /\ Stage2Failed = Dests
         /\ Len(results) = NumDests
         /\ \A k \in 1..NumDests : results[k].dest = k /\ ~results[k].ok
         /\ backup_handles = <<>>
         /\ \A d \in Dests : monPc[d] = "none" /\ sent[d] = 0 /\ ~joined[d]
         /\ Len(channel) = sentinels
         /\ kAtCancel = -1

\* Every destination failed, the sentinel of an interrupt was never taken
\* from the channel, and backup() went on to its end.
C14_Witness ==
    /\ retPath = "all_failed"
    /\ channel = <<Sentinel>>
    /\ pc = "done"
    /\ Len(notified) = NumDests

\* C15: when run() returns after the monitors were started, on the
\* completion path or on the cancel branch, every monitor that was started
\* has ended and has been joined.
C15_MonitorsJoined ==
    /\ \A d \in Dests : joined[d] => monPc[d] = "done"
    /\ retPath \in {"completed", "cancelled"} =>
         /\ backup_handles # <<>>
         /\ \A k \in 1..Len(backup_handles) :
              joined[backup_handles[k]] /\ monPc[backup_handles[k]] = "done"
         /\ \A d \in Dests :
              monPc[d] # "none" => \E k \in 1..Len(backup_handles) : backup_handles[k] = d

\* A cancelled run has returned with its two monitors joined, one of them
\* the monitor of a transfer it killed.
C15_Witness ==
    /\ retPath = "cancelled"
    /\ Len(backup_handles) = NumDests
    /\ \A d \in Dests : joined[d]
    /\ \E d \in Dests : proc[d] = "killed"

\* The entries of results that are Outcomes of monitors: they follow the
\* failures of stage 2 and name their destination.
MonitorEntries ==
    {k \in (Cardinality(Stage2Failed) + 1)..Len(results) : results[k].dest \in Dests}

\* The place of monitor d's message in the order of arrival on the channel.
ArrivalOf(d) == CHOOSE i \in 1..Len(arrival) : arrival[i] = d

\* C16: results holds the failures of stage 2 first, in the input order of
\* their destinations, then the Outcomes of the monitors in the order their
\* messages went on the channel.
C16_ReportOrder ==
    retPath # "estimator" =>
      /\ Len(results) >= Cardinality(Stage2Failed)
      /\ \A k \in 1..Cardinality(Stage2Failed) :
           /\ results[k].dest \in Stage2Failed
           /\ \A l \in 1..(k - 1) : results[l].dest < results[k].dest
      /\ \A k \in MonitorEntries :
           /\ stage[results[k].dest] = "spawned"
           /\ \E i \in 1..Len(arrival) : arrival[i] = results[k].dest
           /\ \A l \in MonitorEntries :
                l < k => ArrivalOf(results[l].dest) < ArrivalOf(results[k].dest)

\* The second destination completed first: its Outcome precedes the one of
\* the first destination in the report.
C16_Witness ==
    /\ retPath = "completed"
    /\ \E k, l \in MonitorEntries :
         /\ k < l
         /\ results[k].dest > results[l].dest
         /\ ArrivalOf(results[k].dest) < ArrivalOf(results[l].dest)

\* C17: a transfer is killed only after the sentinel of an interrupt was
\* received by run(); with no interrupt no transfer is ever killed.
C17_KillNeedsInterrupt ==
    \A d \in Dests :
      (killIssued[d] \/ proc[d] = "killed" \/ pc \in {"kill", "killing"})
      => /\ sentinels >= 1
         /\ Cardinality({k \in 1..Len(channel) : channel[k] = Sentinel}) < sentinels

\* C19: when an excluded volume matches no child of volume_path, the spawn
\* of every destination that reaches it fails with the unknown-exclusion
\* error, for the Local and for the Ssh variant, and none of rsync, tar and
\* ssh has been started.
C19_UnknownExclusion ==
    ~exclusionsOk =>
      \A d \in Dests :
        /\ started[d] = {}
        /\ proc[d] = "none"
        /\ stage[d] \in {"pending", "space_err", "prepare_err", "spawn_err"}
        /\ stage[d] = "spawn_err" =>
             /\ Cardinality(OfDest(results, d)) = 1
             /\ \A k \in OfDest(results, d) :
                  results[k] = BackupError("Excluded volume does not exist", d)

\* A Local and an Ssh destination both went as far as the spawn and failed
\* there on the exclusion.
C19_Witness ==
    /\ ~exclusionsOk
    /\ \E d, e \in Dests :
         /\ dest_paths[d] = "Local" /\ dest_paths[e] = "Ssh"
         /\ stage[d] = "spawn_err" /\ stage[e] = "spawn_err"
    /\ retPath = "all_failed"

\* C20: when the stop of the containers fails, backup() ends with the error
\* before run(): as long as the containers to stop are running there has
\* been no estimate, no space check, no prepare, no spawn, no monitor, no
\* start of the containers and no notification.
C20_StopFailureAborts ==
    containers = "running" =>
      /\ pc \in {"stop", "failed", "exited"}
      /\ retPath = "none"
      /\ results = <<>>
      /\ total_size = 0
      /\ notified = <<>>
      /\ backup_handles = <<>>
      /\ dirExists = dirBefore
      /\ \A d \in Dests :
           /\ stage[d] = "pending"
           /\ proc[d] = "none"
           /\ started[d] = {}
           /\ monPc[d] = "none"

\* backup() has ended on the failure of the stop.
C20_Witness ==
    /\ pc = "failed"
    /\ containers = "running"

\* C18: a create_new_dir for a Local destination that follows a successful
\* one for the same destination and new_dir fails with 'Directory already
\* exists' and leaves the directory and its contents as they were.
C18_SecondPrepareFails ==
    [][ \A d \in Dests :
          ( /\ Len(prepared') = Len(prepared) + 1
            /\ prepared'[Len(prepared')].dest = d
            /\ \E k \in 1..Len(prepared) :
                 prepared[k].dest = d /\ prepared[k].res.ok )
          => /\ prepared'[Len(prepared')].res = BackupError("Directory already exists", d)
             /\ dirExists[d] /\ dirExists'[d]
             /\ files'[d] = files[d]
      ]_vars

\* A call succeeded, the transfer wrote into the directory, and a later
\* call for the same destination failed on the directory being there.
C18_Witness ==
    \E i, j \in 1..Len(prepared) :
      /\ i < j
      /\ prepared[i].dest = prepared[j].dest
      /\ prepared[i].res.ok
      /\ prepared[j].res.msg = "Directory already exists"
      /\ files[prepared[i].dest] # {}
      /\ dirExists[prepared[i].dest]

\* C21: a failure of the start of the containers is not fatal: when backup()
\* has ended after run() returned, every Outcome of the report has been
\* handed to the notification step, the start having failed or not.
C21_StartFailureNonFatal ==
    (pc \in {"done", "failed"} /\ Returned) => notified = results

\* C27: only the sentinel the handler sent takes run() into the cancel
\* branch: the message on which the branch is taken is never the Outcome of
\* a monitor, whatever the stderr text of the transfer.
C27_OnlySentinelCancels ==
    [][ kAtCancel' # kAtCancel
        => /\ Head(channel) = Sentinel
           /\ sentinels >= 1
           /\ \A d \in Dests : OfDest(channel', d) = OfDest(Tail(channel), d)
      ]_vars

\* C30: a monitor whose transfer process has ended comes to send its
\* Outcome and to end (unless a second interrupt ends the process first),
\* also when try_wait returns an error.
C30_MonitorTerminates ==
    \A d \in Dests :
      (monPc[d] # "none" /\ proc[d] \in {"exited_ok", "exited_fail", "killed"})
      ~> ((monPc[d] = "done" /\ sent[d] = 1) \/ pc = "exited")

\* C22: a monitor whose transfer ended with a non-success status sends one
\* Error, with the text of stderr when read_to_end succeeded and with the
\* generic 'backup error' when it failed; a monitor whose transfer ended
\* with success sends one Success and no Error.
C22_MonitorOutcome ==
    [][ \A d \in Dests :
          sent'[d] # sent[d]
          => /\ sent[d] = 0 /\ sent'[d] = 1
             /\ Len(channel') = Len(channel) + 1
             /\ SubSeq(channel', 1, Len(channel)) = channel
             /\ LET m == channel'[Len(channel')]
                IN  /\ proc[d] = "exited_ok" =>
                         m = Success("completed successfully", d)
                    /\ (proc[d] # "exited_ok" /\ stderrRead'[d] = "failed") =>
                         m = BackupError("backup error", d)
                    /\ (proc[d] # "exited_ok" /\ stderrRead'[d] # "failed") =>
                         /\ stderrRead'[d] \in StderrTexts
                         /\ m = BackupError(stderrRead'[d], d)
      ]_vars

\* One monitor reported the stderr text of its failed transfer, another the
\* success of its own.
C22_Witness ==
    /\ retPath = "completed"
    /\ \E d, e \in Dests :
         /\ proc[d] = "exited_fail" /\ stderrRead[d] = "transfer failed"
         /\ BackupError("transfer failed", d) \in {results[k] : k \in 1..Len(results)}
         /\ proc[e] = "exited_ok" /\ stderrRead[e] = "unread"
         /\ Success("completed successfully", e) \in {results[k] : k \in 1..Len(results)}

\* C28: once run() is in the kill loop, it comes to take the lock of every
\* handle and to issue the kill (unless a second interrupt ends the process
\* first), the monitors taking the same lock on every poll notwithstanding.
C28_KillEventually ==
    \A d \in Dests :
      (pc = "kill" /\ stage[d] = "spawned")
      ~> (killIssued[d] \/ pc = "exited")

\* Some thread is inside a lock() that has not returned.
LockWaiting ==
    \/ \E d \in Dests : monPc[d] \in {"start", "loop"} /\ ~LockFree(d)
    \/ \E d \in Dests : monPc[d] \in {"progress_wait", "success_wait"} /\ ~StdoutFree
    \/ pc = "kill" /\ ~LockFree(backup_handles[idx])
    \/ pc \in {"reset_cancel", "reset_done"} /\ ~StdoutFree

\* C29: the locks of the running phase never deadlock: a monitor takes the
\* stdout mutex only while it holds its handle lock, the main thread holds
\* at most one handle lock and the stdout mutex never together with one, and
\* whenever a thread of the live process waits for a lock some thread can
\* take a step.
C29_NoDeadlock ==
    /\ \A d \in Dests : stdoutLock = d => handleLock[d] = "mon"
    /\ Cardinality({d \in Dests : handleLock[d] = "orch"}) <= 1
    /\ (Alive /\ \E d \in Dests : handleLock[d] = "orch") => pc = "killing"
    /\ (Alive /\ LockWaiting) => ENABLED (Main \/ \E d \in Dests : Monitor(d))

\* The main thread waits for the lock of a handle whose monitor holds it
\* and waits for the stdout mutex, which another monitor holds.
C29_Witness ==
    /\ pc = "kill"
    /\ \E d, e \in Dests :
         /\ d # e
         /\ backup_handles[idx] = d
         /\ handleLock[d] = "mon"
         /\ monPc[d] = "progress_wait"
         /\ stdoutLock = e

\* C24: check_available_space succeeds exactly when the probe succeeded and
\* available >= required_size; available = required_size passes,
\* available = required_size - 1 fails with the insufficient-space error,
\* and a failed probe gives the probe's own error.
C24_SpaceCheck ==
    ret.set =>
      LET probe == args.probe
          out   == ret.val
      IN  /\ out.ok <=> (probe.ok /\ probe.val >= args.required_size)
          /\ (probe.ok /\ probe.val = args.required_size) => out = OkUnit
          /\ (probe.ok /\ probe.val = args.required_size - 1) =>
                out = Outcome(FALSE, "Not enough space on destination", args.d,
                              args.required_size, probe.val)
          /\ (probe.ok /\ probe.val < args.required_size) =>
                /\ out.msg = "Not enough space on destination"
                /\ out.msg \notin ProbeErrors
          /\ ~probe.ok =>
                /\ out = BackupError(probe.msg, args.d)
                /\ out.msg # "Not enough space on destination"

\* available = required_size - 1 was refused.
C24_Witness ==
    /\ ret.set
    /\ args.probe.ok
    /\ args.probe.val = args.required_size - 1
    /\ ~ret.val.ok

\* The command whose output the probe read.
UsedCmd == IF args.primary.exec = "fail" THEN args.secondary ELSE args.primary

\* C23: the unix ssh probe runs df -k exactly when df -B1 --output=avail
\* reported a non-success exit status, and then answers the fourth column
\* times 1024; it returns an error when both commands reported failure, and
\* when the output of the command it used has fewer than two lines, too few
\* columns or a value that is not a number; a primary that succeeded with
\* output that does not parse runs no fallback.
C23_SshProbeFallback ==
    ret.set =>
      LET primary   == args.primary
          secondary == args.secondary
          out       == ret.val
          row       == UsedCmd.lines[2]
      IN  /\ DfPrimary \in out.cmds
          /\ DfSecondary \in out.cmds <=> primary.exec = "fail"
          /\ (primary.exec = "fail" /\ secondary.exec = "fail") => ~out.res.ok
          /\ (UsedCmd.exec = "ok" /\ Len(UsedCmd.lines) < 2) => ~out.res.ok
          /\ (UsedCmd.exec = "ok" /\ Len(UsedCmd.lines) >= 2) =>
                IF primary.exec = "fail"
                THEN /\ Len(row) < 4 => ~out.res.ok
                     /\ (Len(row) >= 4 /\ ~row[4].num) => ~out.res.ok
                     /\ (Len(row) >= 4 /\ row[4].num) =>
                           out.res = ProbeOk(row[4].val * 1024)
                ELSE /\ Len(row) = 0 => ~out.res.ok
                     /\ (\E i \in 1..Len(row) : ~row[i].num) => ~out.res.ok
                     /\ (Len(row) = 1 /\ row[1].num) =>
                           out.res = ProbeOk(row[1].val)
          /\ (primary.exec = "ok" /\ ~ParseAvail(primary).ok) =>
                /\ out.cmds = {DfPrimary}
                /\ ~out.res.ok
          /\ ~out.res.ok => out.res.msg \in ProbeErrors

\* The primary reported failure and the fallback read a fourth column.
C23_Witness ==
    /\ ret.set
    /\ args.primary.exec = "fail"
    /\ DfSecondary \in ret.val.cmds
    /\ ret.val.res = ProbeOk(1024)

\* The files below a path, and whether all of it can be read.
RECURSIVE FilesUnder(_), Readable(_)
FilesUnder(t) ==
    IF t.kind = "file" THEN t.size
    ELSE IF Len(t.entries) = 0 THEN 0
    ELSE FilesUnder(Head(t.entries)) + FilesUnder(Dir(Tail(t.entries)))

Readable(t) ==
    /\ t.kind \in {"file", "dir"}
    /\ \A i \in 1..Len(t.entries) : Readable(t.entries[i])

\* The sum of f over the positions in S.
RECURSIVE SumOver(_, _)
SumOver(S, f) ==
    IF S = {} THEN 0
    ELSE LET i == CHOOSE j \in S : TRUE IN f[i] + SumOver(S \ {i}, f)

\* C25: the estimate is the sum, over the children of volume_path whose
\* name is not a member of excluded_volumes, of the sizes of the files
\* below the child; an excluded child adds 0; an entry that cannot be read
\* makes the estimate fail.
C25_EstimateIsSum ==
    (ret.set /\ args.root # BadDir) =>
      LET root == args.root
          kept == {i \in 1..Len(root) : ~contains(args.excluded, root[i].name)}
          part == [i \in 1..Len(root) |->
                     IF i \in kept THEN FilesUnder(root[i].node) ELSE 0]
          allRead == /\ \A i \in 1..Len(root) : root[i].node # BadEntry
                     /\ \A i \in kept : Readable(root[i].node)
      IN  /\ ret.val.ok <=> allRead
          /\ ret.val.ok => ret.val.val = SumOver(1..Len(root), part)

\* An estimate of a directory with an excluded child that has files in it
\* and a child that is kept, the name of one ending with the other's, and
\* a directory below it.
C25_Witness ==
    /\ ret.set
    /\ args.fn = "get_volumes_size"
    /\ args.root # BadDir
    /\ Len(args.root) = 2
    /\ args.excluded = << <<"v">> >>
    /\ args.root[1].name = <<"v">>
    /\ FilesUnder(args.root[1].node) > 0
    /\ args.root[2].node.kind = "dir"
    /\ \E i \in 1..Len(args.root[2].node.entries) :
         args.root[2].node.entries[i].kind = "dir"
    /\ ret.val = ProbeOk(FilesUnder(args.root[2].node))
    /\ ret.val.val > 0

\* C26: for every list of excluded names that passes the validation of
\* exclude_volumes, each excluded name stands for the same children in the
\* validation and in the estimator: the children it matched are the
\* children the estimator left out for it.
C26_ExclusionsAgree ==
    (ret.set /\ ret.val.valid.ok) =>
      \A i \in 1..Len(args.excluded) :
        Matched(VolumesOf(args.root), args.excluded[i])
          = ret.val.skipped \cap {args.excluded[i]}

\* The first interrupt came while backup() was stopping the containers or
\* run() was in its estimate or its loop over the destinations.
EarlyInterrupt == phaseAtSignal = "preparing"

\* The sentinel of an early interrupt stays at the head of the channel
\* until the receive loop takes a message.
SentinelKept ==
    (EarlyInterrupt /\ Alive /\ retPath = "none" /\ kAtCancel = -1)
    => (channel # <<>> /\ Head(channel) = Sentinel)

\* The report at the cancel branch was the failures of stage 2 and nothing
\* else: no Outcome of a monitor was received before the sentinel.
SentinelFirst ==
    /\ kAtCancel = Cardinality(Stage2Failed)
    /\ \A k \in 1..kAtCancel : resAtCancel[k].dest \in Stage2Failed

\* C31: an interrupt that comes before the running phase is not lost and
\* does not skip stage 2: every destination is still checked, prepared and
\* spawned, the sentinel is the first message received and run() returns
\* the failures of stage 2 followed by the interrupted error; when every
\* destination failed in stage 2 the report has no interrupted error.
C31_EarlyInterruptReport ==
    /\ SentinelKept
    /\ (EarlyInterrupt /\ Returned) =>
         /\ \A d \in Dests : stage[d] # "pending"
         /\ IF Stage2Failed = Dests
            THEN /\ retPath = "all_failed"
                 /\ \A k \in 1..Len(results) : results[k].msg # InterruptedMsg
            ELSE /\ retPath = "cancelled"
                 /\ SentinelFirst
                 /\ results = CancelReport(resAtCancel)

\* C31, amended: ... when the size estimate succeeded, every destination
\* is still checked, prepared and spawned, the sentinel is the first
\* message received and run() returns the failures of stage 2, then one
\* error for each kill() that failed, then the interrupted error; when
\* every destination failed in stage 2 the report has no interrupted
\* error; when the size estimate failed run() returns its single error and
\* the sentinel is never received.
C31_EarlyInterrupt ==
    /\ SentinelKept
    /\ (EarlyInterrupt /\ Returned) =>
         IF retPath = "estimator"
         THEN /\ Len(results) = 1
              /\ results[1].msg # InterruptedMsg
              /\ kAtCancel = -1
              /\ \A d \in Dests : stage[d] = "pending"
         ELSE /\ \A d \in Dests : stage[d] # "pending"
              /\ IF Stage2Failed = Dests
                 THEN /\ retPath = "all_failed"
                      /\ \A k \in 1..Len(results) : results[k].msg # InterruptedMsg
                 ELSE /\ retPath = "cancelled"
                      /\ SentinelFirst
                      /\ Len(results) = kAtCancel + KillFailures + 1
                      /\ SubSeq(results, 1, kAtCancel) = resAtCancel
                      /\ \A k \in (kAtCancel + 1)..(Len(results) - 1) :
                           results[k].msg = "kill failed"
                      /\ results[Len(results)] = BackupError(InterruptedMsg, 0)

\* An interrupt during stage 2: one destination failed there, the other
\* was spawned and its monitor sent an Outcome that was never received;
\* the report is the failure and the interrupted error.
C31_Witness ==
    /\ EarlyInterrupt
    /\ sentinels = 1
    /\ retPath = "cancelled"
    /\ Cardinality(Stage2Failed) = 1
    /\ arrival # <<>>
    /\ Len(results) = 2
    /\ results[2] = BackupError(InterruptedMsg, 0)

\* The messages of monitors that were on the channel, or already received,
\* when the handler enqueued the sentinel: they are the first of arrival.
SentBeforeSignal ==
    IF phaseAtSignal = "preparing" THEN 0
    ELSE kAtSignal - Cardinality(Stage2Failed)

\* C32: under cancellation the report holds, of the Outcomes of monitors,
\* exactly those that went on the channel before the sentinel, in that
\* order: an Outcome sent after the sentinel was enqueued is not in the
\* report and adds nothing to its length.
C32_OnlyBeforeSentinel ==
    (retPath = "cancelled" /\ kAtSignal >= 0) =>
      /\ Cardinality(MonitorEntries) = SentBeforeSignal
      /\ \A i \in 1..SentBeforeSignal :
           /\ Cardinality(Stage2Failed) + i <= Len(results)
           /\ results[Cardinality(Stage2Failed) + i].dest = arrival[i]
      /\ Len(results) = Cardinality(Stage2Failed) + SentBeforeSignal + KillFailures + 1

\* C33: transfers run only while the containers are stopped: nothing is
\* spawned as long as the containers to stop are running, and when run()
\* has returned, so that the start of the containers is invoked, the process
\* of every monitor has ended and try_wait has given its exit status, on
\* the completion path and on the cancel branch.
C33_TransfersWhileStopped ==
    /\ containers = "running" =>
         \A d \in Dests : started[d] = {} /\ proc[d] = "none" /\ monPc[d] = "none"
    /\ (Returned \/ containers = "restarted") =>
         \A d \in Dests :
           monPc[d] # "none" =>
             /\ monPc[d] = "done"
             /\ proc[d] \in {"exited_ok", "exited_fail", "killed"}
             /\ reaped[d]

\* The containers were started again after a cancelled run in which one
\* transfer had ended by itself and the other was killed.
C33_Witness ==
    /\ containers = "restarted"
    /\ retPath = "cancelled"
    /\ \E d, e \in Dests :
         /\ proc[d] = "killed"
         /\ proc[e] \in {"exited_ok", "exited_fail"}

\* The calls of handle_containers with the given command.
CallsOf(command) == {i \in 1..Len(dockerCalls) : dockerCalls[i].cmd = command}

\* backup() has gone past the start of the containers and the process was
\* not ended by a second interrupt.
PastStart == pc \in {"notify", "done"} \/ (pc = "failed" /\ Returned)

\* C34: when the stop of the containers succeeded and the process was not
\* ended by a second interrupt, the start is invoked once after run() has
\* returned, and not before, with the names that were stopped: the running
\* containers without the excluded ones; an excluded container is neither
\* stopped nor started.
C34_StartOnceSameNames ==
    /\ running_containers \cap excluded_containers = {}
    /\ \A i \in 1..Len(dockerCalls) :
         /\ dockerCalls[i].names = running_containers
         /\ dockerCalls[i].names # {}
         /\ dockerCalls[i].names \cap excluded_containers = {}
    /\ Cardinality(CallsOf("stop")) <= 1
    /\ Cardinality(CallsOf("start")) <= 1
    /\ \A i \in CallsOf("start") :
         /\ Returned
         /\ i = 2
         /\ dockerCalls[1] = [cmd |-> "stop", names |-> dockerCalls[i].names, ok |-> TRUE]
    /\ (PastStart /\ CallsOf("stop") # {} /\ dockerCalls[1].ok) =>
         Cardinality(CallsOf("start")) = 1
    /\ (CallsOf("stop") # {} /\ dockerCalls[1].ok /\ ~Returned) =>
         CallsOf("start") = {}

\* One interrupt, a cancelled run, and the containers that were stopped
\* were started by one call.
C34_Witness ==
    /\ pc = "done"
    /\ sentinels = 1
    /\ retPath = "cancelled"
    /\ Len(dockerCalls) = 2
    /\ dockerCalls[1].cmd = "stop"
    /\ dockerCalls[2] = [cmd |-> "start", names |-> dockerCalls[1].names, ok |-> TRUE]
    /\ dockerCalls[2].names = running_containers

\* -------------------------------------------------------------------- C35
\* The Local destinations whose prepare succeeded and whose spawn failed in
\* the run before this one.
SpawnFailedBefore ==
    {d \in Dests : dest_paths[d] = "Local" /\ prevStage[d] = "spawn_err"}

\* The run in which a Local destination's spawn fails after its prepare:
\* the directory was not there before, is there now, and the destination
\* has an Error outcome.
DirLeftBehind ==
    \A d \in Dests :
      (dest_paths[d] = "Local" /\ stage[d] = "spawn_err")
      => /\ ~dirBefore[d]
         /\ dirExists[d]
         /\ \E k \in OfDest(results, d) : ~results[k].ok

\* The later run spawns nothing for such a destination.
NothingSpawnedLater ==
    \A d \in SpawnFailedBefore :
      /\ dirBefore[d] /\ dirExists[d]
      /\ started[d] = {}
      /\ proc[d] = "none"
      /\ stage[d] \notin {"spawned", "spawn_err"}

\* C35 as stated: the directory is left behind with an Error outcome, and
\* the later run fails for that destination with "Directory already exists"
\* before spawning anything: once the later run has dealt with the
\* destination or has returned, its outcome for it is that error.
C35_LaterRunDirExists ==
    /\ DirLeftBehind
    /\ NothingSpawnedLater
    /\ \A d \in SpawnFailedBefore :
         (stage[d] # "pending" \/ Returned)
         => /\ stage[d] = "prepare_err"
            /\ \E k \in OfDest(results, d) :
                 results[k] = BackupError("Directory already exists", d)

\* C35, amended: the directory is left behind with an Error outcome, the
\* later run spawns nothing for that destination, and when the later run
\* reaches the destination's prepare (its size estimate and the
\* destination's space check succeeded) the prepare fails with "Directory
\* already exists"; otherwise the destination ends with the space error or
\* with no outcome of its own.
C35_LaterRunNoSpawn ==
    /\ DirLeftBehind
    /\ NothingSpawnedLater
    /\ \A d \in SpawnFailedBefore :
         /\ stage[d] \in {"pending", "space_err", "prepare_err"}
         /\ stage[d] = "prepare_err"
            => \E k \in OfDest(results, d) :
                 results[k] = BackupError("Directory already exists", d)
         /\ stage[d] = "space_err"
            => \A k \in OfDest(results, d) :
                 results[k].msg # "Directory already exists"

C35_Witness ==
    \E d \in SpawnFailedBefore :
      /\ stage[d] = "prepare_err"
      /\ Returned
      /\ BackupError("Directory already exists", d) \in
           {results[k] : k \in 1..Len(results)}

\* -------------------------------------------------------------------- C36
\* The list exclude_volumes is given in this run.
ExcludedVolumes == build(args.user)

\* No immediate child of volume_root has a name ending in the policy name.
PolicyMissing == Matched(VolumesOf(args.root), PolicyExclusion) = {}

\* The policy name is in the list, and its absence from the directory
\* fails the validation whatever the user excluded.
PolicyValidated ==
    /\ \E i \in 1..Len(ExcludedVolumes) : ExcludedVolumes[i] = PolicyExclusion
    /\ PolicyMissing => ~exclusionsOk

\* No transfer and no monitor was started.
NothingStarted ==
    \A d \in Dests : started[d] = {} /\ proc[d] = "none" /\ monPc[d] = "none"

UnknownExclusionFor(d) ==
    /\ stage[d] = "spawn_err"
    /\ Cardinality(OfDest(results, d)) = 1
    /\ \A k \in OfDest(results, d) :
         results[k] = BackupError("Excluded volume does not exist", d)

\* C36 as stated: the policy exclusion is always in the list and is
\* validated like a user exclusion; when no child of volume_root ends in
\* it, every destination that passed its space check fails its spawn with
\* the unknown-exclusion error, and run() returns N Error outcomes without
\* starting any monitor.
C36_PolicyExclusionAll ==
    /\ PolicyValidated
    /\ PolicyMissing =>
         /\ NothingStarted
         /\ \A d \in Dests :
              stage[d] \notin {"pending", "space_err"} => UnknownExclusionFor(d)
         /\ Returned =>
              /\ retPath = "all_failed"
              /\ Len(results) = NumDests
              /\ \A k \in 1..Len(results) : ~results[k].ok

\* C36, amended: the unknown-exclusion error is the outcome of every
\* destination that passed its space check and, for a Local destination,
\* its prepare; run() returns N Error outcomes without starting any monitor
\* when the size estimate succeeded, and the estimate's single error
\* otherwise.
C36_PolicyExclusion ==
    /\ PolicyValidated
    /\ PolicyMissing =>
         /\ NothingStarted
         /\ \A d \in Dests :
              /\ stage[d] \notin {"pending", "space_err", "prepare_err"}
                 => UnknownExclusionFor(d)
              /\ stage[d] = "prepare_err"
                 => /\ dest_paths[d] = "Local"
                    /\ \A k \in OfDest(results, d) :
                         results[k].msg # "Excluded volume does not exist"
         /\ Returned =>
              /\ \A k \in 1..Len(results) : ~results[k].ok
              /\ \/ /\ retPath = "all_failed"
                    /\ Len(results) = NumDests
                    /\ \A d \in Dests : stage[d] # "pending"
                 \/ /\ retPath # "all_failed"
                    /\ Len(results) = 1
                    /\ \A d \in Dests : stage[d] = "pending"

C36_Witness ==
    /\ PolicyMissing
    /\ args.root # <<>>
    /\ retPath = "all_failed"
    /\ Len(results) = NumDests
    /\ \A d \in Dests : UnknownExclusionFor(d)
    /\ \E d \in Dests : dest_paths[d] = "Local"
    /\ \E d \in Dests : dest_paths[d] = "Ssh"

====
